---------------------------- MODULE Spec2Model ----------------------------
(***************************************************************************)
(* Model of app.py, the Mechatronics dashboard: the data engine            *)
(* (load_data and its nested clean), the helpers get_col and               *)
(* natural_sort_key, and the filter / search / BOM computations of the     *)
(* three page views.                                                       *)
(*                                                                         *)
(* Text is modelled as a sequence of one-character strings, so that        *)
(* strip, title, lower, substring tests and regular-expression search are  *)
(* computed character by character as Python computes them.                *)
(***************************************************************************)
EXTENDS Integers, Sequences, FiniteSets, TLC

VARIABLES
    \* load_data.clean (lines 69-86)
    raw,          \* the frame as read from the sheet
    df,           \* the frame clean works on (mutated in place)
    once,         \* df as it stood after the first clean
    passes,       \* how many times clean has run on df
    \* get_col (lines 101-106)
    table,        \* the frame get_col is called on
    candidates,   \* the ordered candidate names
    result,       \* what get_col returned; Pending before the call
    \* load_data's choice of sheets (lines 48-61)
    sheet_names,  \* xls.sheet_names, in workbook order
    comp_sheet,   \* the sheet read as the components table
    set_sheet,    \* the sheet read as the sets table, or None
    proj_sheet,   \* the sheet read as the projects table, or None
    selection,    \* "pending", "done", or "raised" (IndexError at line 51)
    \* the running app: the script of lines 30-98 and the three page views
    file,         \* the workbook file on disk (it may change at any time)
    cache,        \* st.cache_data's entry for load_data, or NotCached
    loads,        \* executions of load_data's body since the cache was cleared
    seen,         \* the table triples the runs got since the cache was cleared
    attempt,      \* the file load_data's body ran on in this run, or NoAttempt
    page,         \* the page chosen in the sidebar radio
    clicked,      \* whether this run was started by the Hard Refresh button
    pc,           \* "idle", or the script's position in the current run
    tables,       \* df_components, df_sets, df_projects of the current run
    screen,       \* the elements the current run has rendered, in order
    \* the ordering of the set labels (line 271)
    labels,       \* df_sets[s_set].unique()
    keys,         \* natural_sort_key of each label
    all_sets,     \* sorted(labels, key=natural_sort_key), or TypeError
    \* the text search of a view (lines 158-164, 285-290)
    view,         \* the page whose search runs
    frame,        \* the rows of the view's cleaned frame
    present,      \* the columns get_col found in the frame
    selected,     \* the multiselect's selection on the filter column
    search,       \* the text typed in the search box
    df_filtered,  \* the rows the view holds: filtered, then searched
    step,         \* where the view is: "filter", "search", "shown", "re.error"
    \* the bill of materials of a project (lines 371-400)
    proj_row,     \* the cells of the component columns of the project's row
    inventory,    \* the rows of the cleaned component table
    c_mfg_no,     \* get_col's part-number column of the component table
    c_status,     \* get_col's status column of the component table
    bom,          \* the part numbers the project refers to
    df_bom,       \* the left join of bom with the component table
    metrics,      \* total_parts, in_stock, missing, readiness
    bom_step      \* "extract", "join", "metrics", "shown", "error"

cleanVars == <<raw, df, once, passes>>
resolverVars == <<table, candidates, result>>
sheetVars == <<sheet_names, comp_sheet, set_sheet, proj_sheet, selection>>
appVars == <<file, cache, loads, seen, attempt, page, clicked, pc, tables, screen>>
sortVars == <<labels, keys, all_sets>>
searchVars == <<view, frame, present, selected, search, df_filtered, step>>
bomVars == <<proj_row, inventory, c_mfg_no, c_status, bom, df_bom, metrics, bom_step>>
vars == <<cleanVars, resolverVars, sheetVars, appVars, sortVars, searchVars, bomVars>>

\* what an action of one part of the model leaves alone
notClean == <<resolverVars, sheetVars, appVars, sortVars, searchVars, bomVars>>
notResolver == <<cleanVars, sheetVars, appVars, sortVars, searchVars, bomVars>>
notSheets == <<cleanVars, resolverVars, appVars, sortVars, searchVars, bomVars>>
notApp == <<cleanVars, resolverVars, sheetVars, sortVars, searchVars, bomVars>>
notSort == <<cleanVars, resolverVars, sheetVars, appVars, searchVars, bomVars>>
notSearch == <<cleanVars, resolverVars, sheetVars, appVars, sortVars, bomVars>>
notBom == <<cleanVars, resolverVars, sheetVars, appVars, sortVars, searchVars>>

-----------------------------------------------------------------------------
(* Bounds of the model.                                                    *)

\* longest generated cell text (over GenChars)
MaxLen == 2
\* most sheets of a workbook
MaxSheets == 3
\* revisions of the workbook's contents
MaxRev == 1
\* most executions of load_data's body between two cache clears
MaxLoads == 2
\* most set labels sorted at once
MaxLabels == 3
\* longest generated set label (over SortChars)
MaxLabelLen == 2
\* most component cells in a project's row
MaxRefs == 3
\* most rows of a component table drawn row by row
MaxInvRows == 2
\* most rows of a component table with one part number
MaxCopies == 29
\* most rows of a searched frame
MaxSearchRows == 2
\* longest search text (over QueryChars)
MaxQueryLen == 2
\* most columns of a frame handed to get_col
MaxCols == 2
\* longest candidate list handed to get_col
MaxCands == 2

-----------------------------------------------------------------------------
(* Characters and the str methods the program calls.                       *)

LowerCase == <<"a","b","c","d","e","f","g","h","i","j","k","l","m",
               "n","o","p","q","r","s","t","u","v","w","x","y","z">>
UpperCase == <<"A","B","C","D","E","F","G","H","I","J","K","L","M",
               "N","O","P","Q","R","S","T","U","V","W","X","Y","Z">>

IsLowerChar(c) == \E i \in DOMAIN LowerCase : LowerCase[i] = c
IsUpperChar(c) == \E i \in DOMAIN UpperCase : UpperCase[i] = c
IsCased(c) == IsLowerChar(c) \/ IsUpperChar(c)
IsSpace(c) == c = " "

\* str.lower() on one character
LowerChar(c) ==
    IF IsUpperChar(c)
    THEN LowerCase[CHOOSE i \in DOMAIN UpperCase : UpperCase[i] = c]
    ELSE c

\* str.upper() on one character
UpperChar(c) ==
    IF IsLowerChar(c)
    THEN UpperCase[CHOOSE i \in DOMAIN LowerCase : LowerCase[i] = c]
    ELSE c

\* str.lower()
Lower(s) == [i \in DOMAIN s |-> LowerChar(s[i])]

\* str.strip(): whitespace removed at both ends
RECURSIVE LStrip(_)
LStrip(s) ==
    IF s # <<>> /\ IsSpace(Head(s)) THEN LStrip(Tail(s)) ELSE s

RECURSIVE RStrip(_)
RStrip(s) ==
    IF s # <<>> /\ IsSpace(s[Len(s)])
    THEN RStrip(SubSeq(s, 1, Len(s) - 1))
    ELSE s

Strip(s) == RStrip(LStrip(s))

\* str.title(): a cased character is upper-cased when the character before
\* it is not cased (or there is none) and lower-cased otherwise
RECURSIVE TitleFrom(_, _)
TitleFrom(s, prevCased) ==
    IF s = <<>> THEN <<>>
    ELSE <<IF prevCased THEN LowerChar(Head(s)) ELSE UpperChar(Head(s))>>
         \o TitleFrom(Tail(s), IsCased(Head(s)))

Title(s) == TitleFrom(s, FALSE)

\* Python's `sub in s` on str
Contains(s, sub) ==
    \E i \in 0..(Len(s) - Len(sub)) : SubSeq(s, i + 1, i + Len(sub)) = sub

-----------------------------------------------------------------------------
(* String literals of the program.                                         *)

s_Dfrobot == <<"D", "f", "r", "o", "b", "o", "t">>
s_Dfr == <<"D", "f", "r">>
s_DFRobot == <<"D", "F", "R", "o", "b", "o", "t">>
s_Adafruit == <<"A", "d", "a", "f", "r", "u", "i", "t">>
s_Pololu == <<"P", "o", "l", "o", "l", "u">>
s_Sparkfun == <<"S", "p", "a", "r", "k", "f", "u", "n">>
s_SparkFun == <<"S", "p", "a", "r", "k", "F", "u", "n">>
s_Arduino == <<"A", "r", "d", "u", "i", "n", "o">>
s_Espressif == <<"E", "s", "p", "r", "e", "s", "s", "i", "f">>
s_Seeed == <<"S", "e", "e", "e", "d">>
s_SeeedStudio == <<"S", "e", "e", "e", "d", " ", "S", "t", "u", "d", "i", "o">>
s_Stmicroelectronics ==
    <<"S", "t", "m", "i", "c", "r", "o", "e", "l", "e", "c", "t", "r", "o",
      "n", "i", "c", "s">>
s_STMicroelectronics ==
    <<"S", "T", "M", "i", "c", "r", "o", "e", "l", "e", "c", "t", "r", "o",
      "n", "i", "c", "s">>
s_Nan == <<"N", "a", "n">>
s_nan == <<"n", "a", "n">>
s_None == <<"N", "o", "n", "e">>
s_Unknown == <<"U", "n", "k", "n", "o", "w", "n">>
s_mfg == <<"m", "f", "g">>
s_manufacturer == <<"m", "a", "n", "u", "f", "a", "c", "t", "u", "r", "e", "r">>
s_brand == <<"b", "r", "a", "n", "d">>
s_link == <<"l", "i", "n", "k">>

-----------------------------------------------------------------------------
(* Frames.  A frame is a sequence of columns; a column has a header, a     *)
(* dtype and its cells.  A cell is text, a number or NaN (an empty sheet   *)
(* cell); `text` of a number is what str() prints for it.                  *)

StrCell(s) == [kind |-> "str", text |-> s]
NaNCell == [kind |-> "nan", text |-> <<>>]
NumCell(s) == [kind |-> "num", text |-> s]

\* DataFrame.empty: no column, or no row
FrameEmpty(f) == f = <<>> \/ f[1].cells = <<>>

\* Series.astype(str) on one cell
AsStr(cell) == IF cell.kind = "nan" THEN s_nan ELSE cell.text

\* line 74: .replace({"Nan": "Unknown", "nan": "Unknown", "None": "Unknown"})
ReplacePlaceholder(s) == IF s \in {s_Nan, s_nan, s_None} THEN s_Unknown ELSE s

\* lines 73-74 on one cell
CleanText(cell) == StrCell(ReplacePlaceholder(Title(Strip(AsStr(cell)))))

\* line 72: the column is cleaned unless its header contains "link"
IsLinkHeader(name) == Contains(Lower(name), s_link)

\* lines 76-82
brand_map ==
    (s_Dfrobot :> s_DFRobot) @@ (s_Dfr :> s_DFRobot) @@
    (s_Adafruit :> s_Adafruit) @@ (s_Pololu :> s_Pololu) @@
    (s_Sparkfun :> s_SparkFun) @@ (s_Arduino :> s_Arduino) @@
    (s_Espressif :> s_Espressif) @@ (s_Seeed :> s_SeeedStudio) @@
    (s_Stmicroelectronics :> s_STMicroelectronics)

\* line 84 with the header compared as written, not lower-cased
IsBrandHeaderExact(name) == name \in {s_mfg, s_manufacturer, s_brand}

\* line 84
IsBrandHeader(name) == Lower(name) \in {s_mfg, s_manufacturer, s_brand}

\* line 85 on one cell: Series.replace(brand_map) rewrites exact matches
BrandReplace(cell) ==
    IF cell.kind = "str" /\ cell.text \in DOMAIN brand_map
    THEN StrCell(brand_map[cell.text])
    ELSE cell

\* lines 71-74 on one column
CleanColumn(col) ==
    IF col.dtype = "object" /\ ~IsLinkHeader(col.name)
    THEN [col EXCEPT !.cells = [i \in DOMAIN col.cells |-> CleanText(col.cells[i])]]
    ELSE col

\* lines 83-85 on one column
BrandColumn(col) ==
    IF IsBrandHeader(col.name)
    THEN [col EXCEPT !.cells = [i \in DOMAIN col.cells |-> BrandReplace(col.cells[i])]]
    ELSE col

\* clean with the synonym table applied before the text clean-up
clean_brand_first(f) ==
    IF FrameEmpty(f) THEN f
    ELSE [i \in DOMAIN f |-> CleanColumn(BrandColumn(f[i]))]

\* lines 69-86
clean(f) ==
    IF FrameEmpty(f) THEN f
    ELSE [i \in DOMAIN f |-> BrandColumn(CleanColumn(f[i]))]

-----------------------------------------------------------------------------
(* get_col, lines 101-106.                                                 *)

\* Python's None where a header is expected: no header is this sequence,
\* since every element of a header is a single character
None == <<"None">>
\* a call that has not returned yet
Pending == <<"Pending">>

\* Python's None where a frame is expected (load_data's failure result)
NoneFrame == <<[name |-> None, dtype |-> "None", cells |-> <<>>]>>

\* line 103 with the headers kept as written: {c: c for c in df.columns}
col_map_exact(f) == [k \in {f[i].name : i \in DOMAIN f} |-> k]

\* line 103: {c.lower(): c for c in df.columns}; of two headers with the
\* same lower-cased form the later one stays in the dict
col_map(f) ==
    [k \in {Lower(f[i].name) : i \in DOMAIN f} |->
        LET last == CHOOSE i \in DOMAIN f :
                      /\ Lower(f[i].name) = k
                      /\ \A j \in DOMAIN f : Lower(f[j].name) = k => j <= i
        IN  f[last].name]

\* lines 104-106
RECURSIVE FirstCandidate(_, _)
FirstCandidate(m, cands) ==
    IF cands = <<>> THEN None
    ELSE IF Lower(Head(cands)) \in DOMAIN m THEN m[Lower(Head(cands))]
    ELSE FirstCandidate(m, Tail(cands))

\* lines 101-106
get_col(f, cands) ==
    IF f = NoneFrame \/ FrameEmpty(f) THEN None
    ELSE FirstCandidate(col_map(f), cands)

-----------------------------------------------------------------------------
(* Inputs of the cleaner.                                                  *)

GenChars == {"a", "A", " "}

RECURSIVE StringsUpTo(_, _)
StringsUpTo(chars, n) ==
    IF n = 0 THEN {<<>>}
    ELSE LET shorter == StringsUpTo(chars, n - 1)
         IN  shorter \cup {Append(s, c) : s \in shorter, c \in chars}

SheetTexts ==
    { <<"d", "f", "r", "o", "b", "o", "t", " ">>,
      <<" ", "D", "F", "R">>,
      s_DFRobot,
      <<"S", "P", "A", "R", "K", "F", "U", "N">>,
      <<"s", "e", "e", "e", "d">>,
      s_SeeedStudio,
      s_STMicroelectronics,
      <<"T", "e", "x", "a", "s", " ", "I", "n", "s", "t">>,
      s_nan,
      <<"N", "a", "N">>,
      <<"n", "o", "n", "e">>,
      s_Unknown,
      <<"o", "'", "n", "e", "i", "l">>,
      <<"a", "1", "b">>,
      <<"h", "t", "t", "p", ":", "/", "/", "x", ".", "c", "o", "/", "a", "B">> }

CellTexts == SheetTexts \cup StringsUpTo(GenChars, MaxLen)

ObjectCells == {StrCell(s) : s \in CellTexts} \cup {NaNCell}
FloatCells == {NaNCell, NumCell(<<"7", ".", "0">>)}

Headers ==
    { <<"M", "f", "g">>,
      <<"M", "A", "N", "U", "F", "A", "C", "T", "U", "R", "E", "R">>,
      <<"B", "r", "a", "n", "d">>,
      <<"B", "r", "a", "n", "d", "s">>,
      <<"N", "a", "m", "e">>,
      <<"L", "i", "n", "k">>,
      <<"P", "a", "r", "t", " ", "L", "i", "n", "k">>,
      <<"U", "r", "l">> }

ObjectColumns ==
    {[name |-> n, dtype |-> "object", cells |-> <<c>>] : n \in Headers, c \in ObjectCells}
FloatColumns ==
    {[name |-> n, dtype |-> "float64", cells |-> <<c>>] : n \in Headers, c \in FloatCells}
HeaderOnlyColumns ==
    {[name |-> n, dtype |-> "object", cells |-> <<>>] : n \in Headers}

s_url == <<"h", "t", "t", "p", ":", "/", "/", "x", ".", "c", "o", "/", "a", "B">>

\* the columns a sheet keeps its hyperlinks in
UrlColumns ==
    {[name |-> n, dtype |-> "object", cells |-> <<c>>] :
        n \in {h \in Headers : Contains(Lower(h), s_link) \/ Lower(h) = <<"u", "r", "l">>},
        c \in {StrCell(s_url), NaNCell}}

\* frames of one row: one text or numeric column, or a text column beside a
\* hyperlink column; and frames without rows
SheetFrames ==
    {<<>>}
    \cup {<<c>> : c \in ObjectColumns \cup FloatColumns \cup HeaderOnlyColumns}
    \cup UNION {{<<c1, c2>> : c2 \in {c \in UrlColumns : c.name # c1.name}} :
                c1 \in ObjectColumns}

-----------------------------------------------------------------------------
(* The cleaner run on a sheet, and run again on its own result.            *)

InitClean ==
    /\ raw \in SheetFrames
    /\ df = raw
    /\ once = <<>>
    /\ passes = 0

\* clean(df): the frame is rewritten in place and returned
Clean ==
    /\ passes < 2
    /\ df' = clean(df)
    /\ once' = IF passes = 0 THEN clean(df) ELSE once
    /\ passes' = passes + 1
    /\ UNCHANGED raw
    /\ UNCHANGED notClean

NextClean == Clean

\* the text clean-up of lines 73-74 spelled out for one sheet cell
TrimTitle(cell) == Title(Strip(AsStr(cell)))
Placeholders == {s_Nan, s_nan, s_None}
BrandNames == {s_mfg, s_manufacturer, s_brand}
LinkCandidates == << <<"L", "i", "n", "k">>, <<"U", "r", "l">> >>

\* C1: cleaning an already cleaned frame changes nothing: after the second
\* clean every cell of df equals the cell the first clean left there.
C1_CleanIdempotent == passes = 2 => df = once

\* a frame whose brand column was rewritten by the synonym table went
\* through both cleans
C1_Witness ==
    /\ passes = 2
    /\ \E i \in DOMAIN raw :
          /\ Lower(raw[i].name) \in BrandNames
          /\ raw[i].cells # <<>>
          /\ once[i].cells[1].text \in {s_DFRobot, s_SeeedStudio, s_SparkFun}
          /\ raw[i].cells[1].text # once[i].cells[1].text

\* C9 as stated: in a brand column a text value whose trimmed, title-cased
\* form is a key of the synonym table becomes the canonical form and any
\* other value is left as its trimmed, title-cased form; in a column of
\* another name no value is rewritten by the synonym table.
C9_BrandAsClaimed ==
    (passes = 1 /\ ~FrameEmpty(raw)) =>
        \A i \in DOMAIN raw :
            raw[i].dtype = "object" =>
                LET t == TrimTitle(raw[i].cells[1])
                    got == once[i].cells[1].text
                IN  IF Lower(raw[i].name) \in BrandNames
                    THEN IF t \in DOMAIN brand_map
                         THEN got = brand_map[t]
                         ELSE got = t
                    ELSE got \in {t, s_Unknown, raw[i].cells[1].text}

\* C9 amended: as C9, but a value matching no key is left as its cleaned
\* form, which is "Unknown" when the trimmed, title-cased form is one of the
\* placeholders "Nan", "nan", "None"; columns that do not hold text are not
\* rewritten at all.
C9_BrandNormalized ==
    (passes = 1 /\ ~FrameEmpty(raw)) =>
        \A i \in DOMAIN raw :
            LET t == TrimTitle(raw[i].cells[1])
                cleaned == IF t \in Placeholders THEN s_Unknown ELSE t
                got == once[i].cells[1]
            IN  /\ once[i].name = raw[i].name
                /\ IF raw[i].dtype # "object" THEN got = raw[i].cells[1]
                   ELSE IF Lower(raw[i].name) \in BrandNames
                   THEN /\ got.kind = "str"
                        /\ got.text = IF t \in DOMAIN brand_map
                                      THEN brand_map[t] ELSE cleaned
                   ELSE IF Contains(Lower(raw[i].name), s_link)
                   THEN got = raw[i].cells[1]
                   ELSE got.kind = "str" /\ got.text = cleaned

\* a brand column held a synonym in another spelling and now holds the
\* canonical form, beside states where a non-brand column holds a key
C9_Witness ==
    /\ passes = 1
    /\ \E i \in DOMAIN raw :
          /\ raw[i].name = <<"B", "r", "a", "n", "d">>
          /\ raw[i].cells = <<StrCell(<<"d", "f", "r", "o", "b", "o", "t", " ">>)>>
          /\ once[i].cells = <<StrCell(s_DFRobot)>>

\* C10: the column a view resolves as its hyperlink column (get_col with
\* the candidates "Link", "Url") holds after cleaning exactly the cells read
\* from the sheet.
C10_LinkColumnVerbatim ==
    passes >= 1 =>
        LET c_link == get_col(df, LinkCandidates)
        IN  \A i \in DOMAIN df :
                (c_link # None /\ df[i].name = c_link) => df[i].cells = raw[i].cells

-----------------------------------------------------------------------------
(* The column resolver called on a frame with a candidate list.            *)

RECURSIVE SeqsUpTo(_, _)
\* the sequences over S of length at most n
SeqsUpTo(S, n) ==
    IF n = 0 THEN {<<>>}
    ELSE LET shorter == SeqsUpTo(S, n - 1)
         IN  shorter \cup {Append(s, x) : s \in shorter, x \in S}

ResolverHeaders ==
    { <<"s", "e", "t">>, <<"S", "e", "t">>, <<"S", "E", "T">>,
      <<"S", "e", "t", " ", "N", "o">>,
      <<"S", "t", "a", "t", "u", "s">>,
      <<"U", "r", "l">> }

\* candidate names of the program's calls: lines 126, 134, 255, 256
ResolverCandidates ==
    { <<"S", "e", "t", " ", "N", "o">>, <<"S", "e", "t">>,
      <<"F", "i", "n", "a", "l", " ", "S", "t", "a", "t", "u", "s">>,
      <<"S", "t", "a", "t", "u", "s">>,
      <<"L", "i", "n", "k">>, <<"U", "r", "l">> }

NoDuplicates(s) == \A i, j \in DOMAIN s : s[i] = s[j] => i = j

\* frames with the given headers and `rows` rows (0 or 1) of empty cells
FrameOf(headers, rows) ==
    [i \in DOMAIN headers |->
        [name |-> headers[i], dtype |-> "object",
         cells |-> IF rows = 0 THEN <<>> ELSE <<NaNCell>>]]

ResolverFrames ==
    {NoneFrame}
    \cup {FrameOf(h, rows) : h \in {s \in SeqsUpTo(ResolverHeaders, MaxCols) : NoDuplicates(s)},
                             rows \in {0, 1}}

InitResolver ==
    /\ table \in ResolverFrames
    /\ candidates \in SeqsUpTo(ResolverCandidates, MaxCands)
    /\ result = Pending

\* result = get_col(table, candidates)
Resolve ==
    /\ result = Pending
    /\ result' = get_col(table, candidates)
    /\ UNCHANGED <<table, candidates>>
    /\ UNCHANGED notResolver

NextResolver == Resolve

\* the candidates, by position, that some header of the table matches
\* case-insensitively
MatchedCandidates ==
    {k \in DOMAIN candidates :
        \E i \in DOMAIN table : Lower(table[i].name) = Lower(candidates[k])}

\* the result is a header of the table that matches, case-insensitively, the
\* earliest candidate any header matches; None when no candidate matches
ResultIsEarliestMatch ==
    IF MatchedCandidates = {} THEN result = None
    ELSE LET k == CHOOSE m \in MatchedCandidates :
                    \A n \in MatchedCandidates : m <= n
         IN  /\ result # None
             /\ \E i \in DOMAIN table : table[i].name = result
             /\ Lower(result) = Lower(candidates[k])

\* C2 as stated: for every table and candidate list get_col returns the
\* header matching the earliest matching candidate, and None exactly when no
\* candidate matches a header case-insensitively.
C2_ResolverAsClaimed == result # Pending => ResultIsEarliestMatch

\* C2 amended: the same for every table that has at least one row; for a
\* table that is None or has no rows (or no columns) get_col returns None
\* whatever its headers are.
C2_Resolver ==
    result # Pending =>
        IF table = NoneFrame \/ table = <<>> \/ table[1].cells = <<>>
        THEN result = None
        ELSE ResultIsEarliestMatch

\* candidates ["Set No", "Set"] on a table whose only column is "set"
C2_Witness ==
    /\ candidates = << <<"S", "e", "t", " ", "N", "o">>, <<"S", "e", "t">> >>
    /\ Len(table) = 1
    /\ table[1].name = <<"s", "e", "t">>
    /\ table[1].cells # <<>>
    /\ result = <<"s", "e", "t">>

-----------------------------------------------------------------------------
(* load_data's choice of sheets, lines 48-61.                              *)

s_Component == <<"C", "o", "m", "p", "o", "n", "e", "n", "t">>
s_Set == <<"S", "e", "t">>
s_Delivery == <<"D", "e", "l", "i", "v", "e", "r", "y">>
s_Project == <<"P", "r", "o", "j", "e", "c", "t">>
s_Considered == <<"C", "o", "n", "s", "i", "d", "e", "r", "e", "d">>

ContainsAll(s, subs) == \A sub \in subs : Contains(s, sub)

\* next((s for s in names if <every sub in s>), None)
RECURSIVE NextSheet(_, _)
NextSheet(names, subs) ==
    IF names = <<>> THEN None
    ELSE IF ContainsAll(Head(names), subs) THEN Head(names)
    ELSE NextSheet(Tail(names), subs)

\* line 51; the default xls.sheet_names[0] is evaluated before next() runs
\* and raises IndexError on a workbook without sheets
PickCompRaises(names) == names = <<>>
PickComp(names) ==
    LET s == NextSheet(names, {s_Component})
    IN  IF s # None THEN s ELSE names[1]

\* lines 55-56 without the second search
PickSetNoFallback(names) == NextSheet(names, {s_Set, s_Delivery})

\* lines 55-56
PickSet(names) ==
    LET s == NextSheet(names, {s_Set, s_Delivery})
    IN  IF s = None THEN NextSheet(names, {s_Delivery}) ELSE s

\* line 60
PickProj(names) == NextSheet(names, {s_Project, s_Considered})

WorkbookSheets ==
    { <<"C", "o", "m", "p", "o", "n", "e", "n", "t", "s">>,
      <<"c", "o", "m", "p", "o", "n", "e", "n", "t", "s">>,
      <<"S", "e", "t", " ", "D", "e", "l", "i", "v", "e", "r", "y">>,
      <<"D", "e", "l", "i", "v", "e", "r", "y", " ", "S", "e", "t", "s">>,
      <<"D", "e", "l", "i", "v", "e", "r", "y">>,
      <<"S", "e", "t", "s">>,
      <<"P", "r", "o", "j", "e", "c", "t", "s", " ", "C", "o", "n", "s", "i", "d", "e", "r", "e", "d">>,
      <<"P", "r", "o", "j", "e", "c", "t", "s">>,
      <<"S", "e", "t", " ", "C", "o", "m", "p", "o", "n", "e", "n", "t", "s">>,
      <<"S", "h", "e", "e", "t", "1">> }

\* the sheet names of a workbook: distinct, in workbook order
Workbooks == {s \in SeqsUpTo(WorkbookSheets, MaxSheets) : NoDuplicates(s)}

InitSheets ==
    /\ sheet_names \in Workbooks
    /\ comp_sheet = None /\ set_sheet = None /\ proj_sheet = None
    /\ selection = "pending"

\* lines 51-60 on a workbook that has a sheet
SelectSheets ==
    /\ selection = "pending"
    /\ ~PickCompRaises(sheet_names)
    /\ comp_sheet' = PickComp(sheet_names)
    /\ set_sheet' = PickSet(sheet_names)
    /\ proj_sheet' = PickProj(sheet_names)
    /\ selection' = "done"
    /\ UNCHANGED sheet_names
    /\ UNCHANGED notSheets

\* line 51 on a workbook without sheets: IndexError, no sheet is chosen
SelectRaises ==
    /\ selection = "pending"
    /\ PickCompRaises(sheet_names)
    /\ selection' = "raised"
    /\ UNCHANGED <<sheet_names, comp_sheet, set_sheet, proj_sheet>>
    /\ UNCHANGED notSheets

NextSheets == SelectSheets \/ SelectRaises

\* s is the first sheet of the workbook whose name contains every sub
FirstSheetWith(s, subs) ==
    \E i \in DOMAIN sheet_names :
        /\ sheet_names[i] = s
        /\ \A sub \in subs : Contains(s, sub)
        /\ \A j \in 1..(i - 1) :
              \E sub \in subs : ~Contains(sheet_names[j], sub)

SomeSheetWith(subs) ==
    \E i \in DOMAIN sheet_names : \A sub \in subs : Contains(sheet_names[i], sub)

\* C3: on every workbook with at least one sheet, the components sheet is
\* the first sheet whose name contains "Component", else the first sheet;
\* the sets sheet is the first sheet containing "Set" and "Delivery", else
\* the first containing "Delivery", else absent; the projects sheet is the
\* first sheet containing "Project" and "Considered", else absent.
C3_SheetSelection ==
    /\ (selection = "pending" /\ sheet_names # <<>>) => ENABLED SelectSheets
    /\ selection = "done" =>
        /\ IF SomeSheetWith({s_Component})
           THEN FirstSheetWith(comp_sheet, {s_Component})
           ELSE comp_sheet = sheet_names[1]
        /\ IF SomeSheetWith({s_Set, s_Delivery})
           THEN FirstSheetWith(set_sheet, {s_Set, s_Delivery})
           ELSE IF SomeSheetWith({s_Delivery})
           THEN FirstSheetWith(set_sheet, {s_Delivery})
           ELSE set_sheet = None
        /\ IF SomeSheetWith({s_Project, s_Considered})
           THEN FirstSheetWith(proj_sheet, {s_Project, s_Considered})
           ELSE proj_sheet = None

\* a workbook without a "Component" sheet and without a sheet naming both
\* "Set" and "Delivery": the first sheet and the "Delivery" sheet are chosen
C3_Witness ==
    /\ selection = "done"
    /\ Len(sheet_names) = 3
    /\ ~SomeSheetWith({s_Component})
    /\ comp_sheet = sheet_names[1]
    /\ ~SomeSheetWith({s_Set, s_Delivery})
    /\ set_sheet = sheet_names[3]
    /\ Contains(sheet_names[2], s_Set)
    /\ proj_sheet = None

-----------------------------------------------------------------------------
(* The running app.  Every user interaction reruns the script from the     *)
(* top: the sidebar (lines 30-37), the cached load_data (lines 42-94), the *)
(* check of its result (lines 96-98) and the view of the chosen page.      *)

Pages == {"Inventory Overview", "Delivery Tracking", "Project Explorer"}

\* table values: Python's None, an empty DataFrame(), or a frame read from
\* a sheet at some revision of the file
NoneTable == [kind |-> "None", sheet |-> None, rev |-> 0]
EmptyTable == [kind |-> "empty", sheet |-> None, rev |-> 0]
SheetTable(s, r) == [kind |-> "frame", sheet |-> s, rev |-> r]

\* load_data's return value on failure (lines 45 and 92)
AllNone == [comp |-> NoneTable, sets |-> NoneTable, proj |-> NoneTable]
\* the run has not called load_data yet
NoTables == [comp |-> "unset", sets |-> "unset", proj |-> "unset"]

AbsentFile == [kind |-> "absent", sheets |-> <<>>, fault |-> "none", rev |-> 0]
NoAttempt == [kind |-> "no attempt", sheets |-> <<>>, fault |-> "none", rev |-> 0]
NotCached == [stored |-> FALSE, value |-> NoTables, elements |-> <<>>]

\* where an exception is raised inside the try block of lines 47-88
Faults == {"open", "read", "header", "clean"}

wb_Components == <<"C", "o", "m", "p", "o", "n", "e", "n", "t", "s">>
wb_SetDelivery == <<"S", "e", "t", " ", "D", "e", "l", "i", "v", "e", "r", "y">>
wb_Considered ==
    <<"P", "r", "o", "j", "e", "c", "t", "s", " ", "C", "o", "n", "s", "i",
      "d", "e", "r", "e", "d">>
wb_Sheet1 == <<"S", "h", "e", "e", "t", "1">>
wb_Sets == <<"S", "e", "t", "s">>

AppWorkbooks ==
    { <<>>,
      <<wb_Sheet1>>,
      <<wb_Components, wb_Sets>>,
      <<wb_Components, wb_SetDelivery, wb_Considered>> }

\* the files the disk may hold: none, a readable workbook at some revision,
\* or a workbook some step of the load chokes on
Files ==
    {AbsentFile}
    \cup {[kind |-> "xlsx", sheets |-> w, fault |-> "none", rev |-> r] :
             w \in AppWorkbooks, r \in 0..MaxRev}
    \cup {[kind |-> "xlsx", sheets |-> w, fault |-> f, rev |-> 0] :
             w \in AppWorkbooks, f \in Faults}

\* lines 45-92: how the body of load_data ends on file f
\*   "absent"  line 45 returns
\*   "raised"  an exception inside the try block reaches line 90
\*   "ok"      line 88 returns
BodyOutcome(f) ==
    IF f.kind = "absent" THEN "absent"
    ELSE IF f.fault = "open" THEN "raised"
    ELSE IF PickCompRaises(f.sheets) THEN "raised"
    ELSE IF f.fault \in {"read", "header", "clean"} THEN "raised"
    ELSE "ok"

\* line 57 returning None where no sheet is read
LoadedTablesNoFrame(f) ==
    [comp |-> SheetTable(PickComp(f.sheets), f.rev),
     sets |-> IF PickSet(f.sheets) # None
              THEN SheetTable(PickSet(f.sheets), f.rev) ELSE NoneTable,
     proj |-> IF PickProj(f.sheets) # None
              THEN SheetTable(PickProj(f.sheets), f.rev) ELSE EmptyTable]

\* lines 51-61 and 88: the three frames of a workbook that loads
LoadedTables(f) ==
    [comp |-> SheetTable(PickComp(f.sheets), f.rev),
     sets |-> IF PickSet(f.sheets) # None
              THEN SheetTable(PickSet(f.sheets), f.rev) ELSE EmptyTable,
     proj |-> IF PickProj(f.sheets) # None
              THEN SheetTable(PickProj(f.sheets), f.rev) ELSE EmptyTable]

\* lines 45, 88, 92: what load_data returns
LoadReturns(f) == IF BodyOutcome(f) = "ok" THEN LoadedTables(f) ELSE AllNone

\* line 91: what load_data renders while it runs
LoadElements(f) ==
    IF BodyOutcome(f) = "raised" THEN <<"Data Load Error">> ELSE <<>>

\* the decorator left out: nothing is kept between runs
CacheStoreNothing(f) == NotCached

\* line 42, @st.cache_data: the return value and the elements rendered by
\* the body are stored under the (argument-free) call
CacheStore(f) ==
    [stored |-> TRUE, value |-> LoadReturns(f), elements |-> LoadElements(f)]

\* line 96 testing for an empty frame instead of None
CheckStopsOnEmpty(t) == t.comp = EmptyTable

\* line 96
CheckStops(t) == t.comp = NoneTable

InitApp ==
    /\ file \in Files
    /\ cache = NotCached
    /\ loads = 0
    /\ seen = {}
    /\ attempt = NoAttempt
    /\ page = "Inventory Overview"
    /\ clicked = FALSE
    /\ pc = "idle"
    /\ tables = NoTables
    /\ screen = <<>>

\* the file is replaced, edited or removed on disk
FileChanges ==
    /\ file' \in Files \ {file}
    /\ UNCHANGED <<cache, loads, seen, attempt, page, clicked, pc, tables, screen>>
    /\ UNCHANGED notApp

StartRun ==
    /\ pc' = "sidebar"
    /\ tables' = NoTables
    /\ attempt' = NoAttempt
    /\ screen' = <<>>
    /\ UNCHANGED <<file, cache, loads, seen>>
    /\ UNCHANGED notApp

\* line 37: the user picks a page
SelectPage ==
    /\ pc = "idle"
    /\ page' \in Pages
    /\ clicked' = FALSE
    /\ StartRun

\* lines 143, 149, 158, 272, 274, 368: the user changes a filter, types a
\* search or picks a project; the page stays
ChangeWidget ==
    /\ pc = "idle"
    /\ UNCHANGED page
    /\ clicked' = FALSE
    /\ StartRun

\* line 32: the user presses Hard Refresh
PressRefresh ==
    /\ pc = "idle"
    /\ UNCHANGED page
    /\ clicked' = TRUE
    /\ StartRun

\* lines 32-34: the button was pressed; the cache is cleared and the script
\* starts over
HardRefresh ==
    /\ pc = "sidebar"
    /\ clicked
    /\ cache' = NotCached
    /\ loads' = 0
    /\ seen' = {}
    /\ clicked' = FALSE
    /\ UNCHANGED <<file, attempt, page, pc, tables, screen>>
    /\ UNCHANGED notApp

\* lines 32-37 with the button not pressed
Sidebar ==
    /\ pc = "sidebar"
    /\ ~clicked
    /\ pc' = "load"
    /\ UNCHANGED <<file, cache, loads, seen, attempt, page, clicked, tables, screen>>
    /\ UNCHANGED notApp

\* line 94, nothing cached: the body of load_data runs on the file
LoadMiss ==
    /\ pc = "load"
    /\ ~cache.stored
    /\ loads < MaxLoads
    /\ cache' = CacheStore(file)
    /\ loads' = loads + 1
    /\ attempt' = file
    /\ tables' = LoadReturns(file)
    /\ seen' = seen \cup {LoadReturns(file)}
    /\ screen' = screen \o LoadElements(file)
    /\ pc' = "check"
    /\ UNCHANGED <<file, page, clicked>>
    /\ UNCHANGED notApp

\* line 94, cached: the stored value is returned and the stored elements are
\* rendered again; the body does not run
LoadHit ==
    /\ pc = "load"
    /\ cache.stored
    /\ tables' = cache.value
    /\ seen' = seen \cup {cache.value}
    /\ screen' = screen \o cache.elements
    /\ pc' = "check"
    /\ UNCHANGED <<file, cache, loads, attempt, page, clicked>>
    /\ UNCHANGED notApp

\* lines 96-98: st.error and st.stop()
CheckHalts ==
    /\ pc = "check"
    /\ CheckStops(tables)
    /\ screen' = Append(screen, "File not found")
    /\ pc' = "idle"
    /\ UNCHANGED <<file, cache, loads, seen, attempt, page, clicked, tables>>
    /\ UNCHANGED notApp

\* line 96, the tables are there
CheckPasses ==
    /\ pc = "check"
    /\ ~CheckStops(tables)
    /\ pc' = "view"
    /\ UNCHANGED <<file, cache, loads, seen, attempt, page, clicked, tables, screen>>
    /\ UNCHANGED notApp

\* a view ends the run having rendered `element`; it works on copies
\* (lines 138, 278, 374) and leaves the run's tables and the cache alone
ViewEnds(element) ==
    /\ screen' = Append(screen, element)
    /\ pc' = "idle"
    /\ UNCHANGED <<file, cache, loads, seen, attempt, page, clicked, tables>>
    /\ UNCHANGED notApp

\* lines 122-248
ViewInventory ==
    /\ pc = "view"
    /\ page = "Inventory Overview"
    /\ ViewEnds("Inventory Cockpit")

\* lines 157 and 265: the title a view renders before its search runs
ViewTitle(p) ==
    IF p = "Inventory Overview" THEN "Inventory Cockpit" ELSE "Delivery Tracking"

\* lines 162, 288: the search text is not a valid regular expression and
\* str.contains raises; the run ends with the exception shown under the
\* title the view had rendered
ViewRaises ==
    /\ pc = "view"
    /\ page \in {"Inventory Overview", "Delivery Tracking"}
    /\ page = "Delivery Tracking" => tables.sets # EmptyTable
    /\ screen' = screen \o <<ViewTitle(page), "exception">>
    /\ pc' = "idle"
    /\ UNCHANGED <<file, cache, loads, seen, attempt, page, clicked, tables>>
    /\ UNCHANGED notApp

\* lines 261-263: st.error and st.stop(); the sheet read may also lack rows
\* or the set / status columns
ViewDeliveryMissing ==
    /\ pc = "view"
    /\ page = "Delivery Tracking"
    /\ ViewEnds("Delivery Data Missing")

\* lines 265-348
ViewDelivery ==
    /\ pc = "view"
    /\ page = "Delivery Tracking"
    /\ tables.sets # EmptyTable
    /\ ViewEnds("Delivery Tracking")

\* lines 357-359
ViewProjectsMissing ==
    /\ pc = "view"
    /\ page = "Project Explorer"
    /\ tables.proj \in {NoneTable, EmptyTable}
    /\ ViewEnds("Projects sheet not found")

\* lines 361-443; a projects sheet without rows also ends at line 359
ViewProjects ==
    /\ pc = "view"
    /\ page = "Project Explorer"
    /\ tables.proj \notin {NoneTable, EmptyTable}
    /\ \/ ViewEnds("Project Explorer")
       \/ ViewEnds("Projects sheet not found")

NextApp ==
    \/ FileChanges
    \/ SelectPage \/ ChangeWidget \/ PressRefresh
    \/ HardRefresh \/ Sidebar
    \/ LoadMiss \/ LoadHit
    \/ CheckHalts \/ CheckPasses
    \/ ViewInventory \/ ViewRaises
    \/ ViewDeliveryMissing \/ ViewDelivery
    \/ ViewProjectsMissing \/ ViewProjects

ViewElements ==
    {"Inventory Cockpit", "Delivery Tracking", "Delivery Data Missing",
     "Project Explorer", "Projects sheet not found", "exception"}

\* the load of file f fails: the file is absent, or a step of the load
\* raises, a workbook without sheets included
LoadFails(f) == f.kind = "absent" \/ f.fault # "none" \/ f.sheets = <<>>

\* C4: a load attempt that fails returns all three tables absent, shows a
\* message, and halts the run at line 98 before any page view renders.
C4_FailurePolicy ==
    (attempt # NoAttempt /\ LoadFails(attempt)) =>
        /\ tables = AllNone
        /\ cache.stored => cache.value = AllNone
        /\ pc \in {"check", "idle"}
        /\ \A i \in DOMAIN screen : screen[i] \notin ViewElements
        /\ attempt.kind # "absent" => screen # <<>> /\ screen[1] = "Data Load Error"
        /\ pc = "idle" => screen # <<>> /\ screen[Len(screen)] = "File not found"

\* a run whose load raised while cleaning has halted with both messages
C4_Witness ==
    /\ attempt # NoAttempt
    /\ attempt.fault = "clean"
    /\ Len(attempt.sheets) = 3
    /\ pc = "idle"
    /\ screen = <<"Data Load Error", "File not found">>
    /\ page = "Delivery Tracking"

\* C5: between two Hard Refreshes the body of load_data runs at most once,
\* every run gets the same three tables (the cached ones), no step but the
\* first load and Hard Refresh changes the cache, and no view changes the
\* tables or the cache.
C5_StableSnapshot ==
    /\ [](/\ loads <= 1
          /\ Cardinality(seen) <= 1
          /\ pc \in {"check", "view"} => (cache.stored /\ tables = cache.value))
    /\ [][cache' # cache =>
            \/ ~cache.stored /\ pc = "load"
            \/ cache' = NotCached /\ clicked /\ pc = "sidebar"]_vars
    /\ [][pc = "view" => (tables' = tables /\ cache' = cache /\ seen' = seen)]_vars

\* the file changed after it was loaded and a later run, on another page,
\* has still rendered from the tables of the first load
C5_Witness ==
    /\ cache.stored
    /\ cache.value.comp.kind = "frame"
    /\ file.kind = "xlsx" /\ file.fault = "none" /\ file.sheets # <<>>
    /\ file.rev # cache.value.comp.rev
    /\ attempt = NoAttempt
    /\ pc = "idle"
    /\ screen = <<"Delivery Tracking">>
    /\ tables = cache.value

\* a workbook that loads and has sheets, none of them named for deliveries
LacksDelivery(f) ==
    /\ f.kind = "xlsx" /\ f.fault = "none" /\ f.sheets # <<>>
    /\ \A i \in DOMAIN f.sheets : ~Contains(f.sheets[i], s_Delivery)

\* C11: for a workbook with at least one sheet and no sheet named
\* "Delivery", the load returns the components frame and an empty sets
\* table with no error shown; on these tables a Delivery Tracking run ends
\* with the "data missing" message alone, and an Inventory Overview run
\* renders the inventory from the components frame.
C11_MissingDeliverySheet ==
    /\ (attempt # NoAttempt /\ LacksDelivery(attempt)) =>
           /\ tables.comp = SheetTable(PickComp(attempt.sheets), attempt.rev)
           /\ tables.sets = EmptyTable
           /\ cache.value = tables
           /\ \A i \in DOMAIN screen :
                  screen[i] \notin {"Data Load Error", "File not found"}
    /\ (pc = "idle" /\ cache.stored /\ cache.value.sets = EmptyTable) =>
           /\ tables = cache.value
           /\ page = "Delivery Tracking" => screen = <<"Delivery Data Missing">>
           /\ page = "Inventory Overview" =>
                  (screen # <<>> /\ screen[1] = "Inventory Cockpit")

\* a workbook with a components and a sets sheet but no delivery sheet was
\* loaded and the Delivery Tracking run has ended with the message
C11_Witness ==
    /\ attempt # NoAttempt
    /\ attempt.fault = "none"
    /\ attempt.sheets = <<wb_Components, wb_Sets>>
    /\ tables.sets = EmptyTable
    /\ page = "Delivery Tracking"
    /\ pc = "idle"
    /\ screen = <<"Delivery Data Missing">>

-----------------------------------------------------------------------------
(* natural_sort_key (lines 108-109) and the ordering of the set labels     *)
(* (line 271).                                                             *)

\* a character outside ASCII: ARABIC-INDIC DIGIT THREE, written by its code
\* point; str.isdigit() holds of it and int() reads it as 3, but the
\* pattern [0-9] does not match it
ArabicThree == "U+0663"

AsciiDigits == <<"0", "1", "2", "3", "4", "5", "6", "7", "8", "9">>

\* the pattern [0-9] of line 109
IsAsciiDigit(c) == \E i \in DOMAIN AsciiDigits : AsciiDigits[i] = c

\* str.isdigit() on one character
IsDigitChar(c) == IsAsciiDigit(c) \/ c = ArabicThree

\* the value int() gives a digit
DigitValue(c) ==
    IF c = ArabicThree THEN 3
    ELSE (CHOOSE i \in DOMAIN AsciiDigits : AsciiDigits[i] = c) - 1

\* ord(c), which orders str values
Code(c) ==
    IF c = " " THEN 32
    ELSE IF IsAsciiDigit(c) THEN 48 + DigitValue(c)
    ELSE IF IsUpperChar(c) THEN 64 + (CHOOSE i \in DOMAIN UpperCase : UpperCase[i] = c)
    ELSE IF IsLowerChar(c) THEN 96 + (CHOOSE i \in DOMAIN LowerCase : LowerCase[i] = c)
    ELSE 1635

\* re.split('([0-9]+)', s): the pieces of s, text and digit runs in turn,
\* starting and ending with a (possibly empty) text run; `pieces` holds the
\* pieces of the characters read so far
RECURSIVE SplitRuns(_, _)
SplitRuns(s, pieces) ==
    LET n == Len(pieces)
        inDigits == n % 2 = 0
    IN  IF s = <<>> THEN (IF inDigits THEN Append(pieces, <<>>) ELSE pieces)
        ELSE IF IsAsciiDigit(Head(s)) = inDigits
             THEN SplitRuns(Tail(s), [pieces EXCEPT ![n] = Append(@, Head(s))])
             ELSE SplitRuns(Tail(s), Append(pieces, <<Head(s)>>))

ReSplit(s) == SplitRuns(s, << <<>> >>)

\* int(text)
RECURSIVE IntOf(_)
IntOf(text) ==
    IF text = <<>> THEN 0
    ELSE 10 * IntOf(SubSeq(text, 1, Len(text) - 1)) + DigitValue(text[Len(text)])

\* str.isdigit(): not empty and every character a digit
IsDigit(text) == text # <<>> /\ \A i \in DOMAIN text : IsDigitChar(text[i])

IntItem(n) == [type |-> "int", n |-> n, s |-> <<>>]
StrItem(s) == [type |-> "str", n |-> 0, s |-> s]

\* line 109: int(text) if text.isdigit() else text.lower()
KeyItem(text) ==
    IF IsDigit(text) THEN IntItem(IntOf(text)) ELSE StrItem(Lower(text))

\* lines 108-109
natural_sort_key(s) ==
    LET pieces == ReSplit(s) IN [i \in DOMAIN pieces |-> KeyItem(pieces[i])]

\* str < str: by code point, a proper prefix first
RECURSIVE StrLess(_, _)
StrLess(a, b) ==
    IF b = <<>> THEN FALSE
    ELSE IF a = <<>> THEN TRUE
    ELSE IF Head(a) # Head(b) THEN Code(Head(a)) < Code(Head(b))
    ELSE StrLess(Tail(a), Tail(b))

\* list < list as Python compares: the first unequal pair of items decides,
\* and an int beside a str there is a TypeError
RECURSIVE CompareKeys(_, _)
CompareKeys(a, b) ==
    IF a = <<>> /\ b = <<>> THEN "eq"
    ELSE IF a = <<>> THEN "lt"
    ELSE IF b = <<>> THEN "gt"
    ELSE IF Head(a) = Head(b) THEN CompareKeys(Tail(a), Tail(b))
    ELSE IF Head(a).type # Head(b).type THEN "TypeError"
    ELSE IF Head(a).type = "int"
         THEN (IF Head(a).n < Head(b).n THEN "lt" ELSE "gt")
         ELSE (IF StrLess(Head(a).s, Head(b).s) THEN "lt" ELSE "gt")

TypeError == <<"TypeError">>

\* x put into the sorted sequence after every item not greater than it
RECURSIVE InsertByKey(_, _)
InsertByKey(x, sorted) ==
    IF sorted = <<>> THEN <<x>>
    ELSE IF CompareKeys(natural_sort_key(x), natural_sort_key(Head(sorted))) = "lt"
         THEN <<x>> \o sorted
         ELSE <<Head(sorted)>> \o InsertByKey(x, Tail(sorted))

RECURSIVE StableSort(_)
StableSort(xs) ==
    IF xs = <<>> THEN <<>>
    ELSE InsertByKey(xs[Len(xs)], StableSort(SubSeq(xs, 1, Len(xs) - 1)))

\* sorted(xs, key=natural_sort_key), line 271.  The sort is stable.  It
\* raises when two keys cannot be compared: no key lies between two such
\* keys (a third key differs from their common prefix, or cannot be compared
\* with one of them), so no sort can order them without comparing them.
SortedByKey(xs) ==
    IF \E i, j \in DOMAIN xs :
          CompareKeys(natural_sort_key(xs[i]), natural_sort_key(xs[j])) = "TypeError"
    THEN TypeError
    ELSE StableSort(xs)

l_Set1 == <<"S", "e", "t", " ", "1">>
l_Set2 == <<"S", "e", "t", " ", "2">>
l_Set10 == <<"S", "e", "t", " ", "1", "0">>

\* set labels as the cleaned Set column holds them
SetLabels ==
    { l_Set1, l_Set2, l_Set10,
      <<"S", "e", "t", " ", "0", "2">>,
      <<"S", "E", "T", " ", "2">>,
      <<"S", "e", "t", "2", "B">>,
      <<"S", "e", "t">>,
      <<"1", "0">>,
      <<"U", "n", "k", "n", "o", "w", "n">>,
      <<"S", "e", "t", " ", ArabicThree>>,
      <<ArabicThree>> }

SortChars == {"a", "B", "1", "0", ArabicThree}

\* line 271: df_sets[s_set].unique(), distinct labels in sheet order
UniqueLabels ==
    {s \in SeqsUpTo(SetLabels, MaxLabels) : NoDuplicates(s)}
    \cup {<<a, b>> : a, b \in StringsUpTo(SortChars, MaxLabelLen)}

InitSort ==
    /\ labels \in {s \in UniqueLabels : NoDuplicates(s)}
    /\ keys = <<>>
    /\ all_sets = Pending

\* the keys sorted() computes first, one per label
ComputeKeys ==
    /\ all_sets = Pending
    /\ keys = <<>>
    /\ labels # <<>>
    /\ keys' = [i \in DOMAIN labels |-> natural_sort_key(labels[i])]
    /\ UNCHANGED <<labels, all_sets>>
    /\ UNCHANGED notSort

\* line 271: all_sets = sorted(..., key=natural_sort_key)
SortLabels ==
    /\ all_sets = Pending
    /\ keys # <<>> \/ labels = <<>>
    /\ all_sets' = SortedByKey(labels)
    /\ UNCHANGED <<labels, keys>>
    /\ UNCHANGED notSort

NextSort == ComputeKeys \/ SortLabels

\* C8: any two keys can be compared, digit runs by value and other runs
\* ignoring case, so that sorting never fails and orders the labels, with
\* "Set 2" before "Set 10": ["Set 10", "Set 2", "Set 1"] sorts to
\* ["Set 1", "Set 2", "Set 10"].
C8_NaturalSortAsClaimed ==
    /\ \A i, j \in DOMAIN keys : CompareKeys(keys[i], keys[j]) # "TypeError"
    /\ all_sets # Pending =>
        /\ all_sets # TypeError
        /\ Len(all_sets) = Len(labels)
        /\ \A i, j \in DOMAIN all_sets :
              i < j => CompareKeys(natural_sort_key(all_sets[i]),
                                   natural_sort_key(all_sets[j])) \in {"lt", "eq"}
        /\ labels = <<l_Set10, l_Set2, l_Set1>> => all_sets = <<l_Set1, l_Set2, l_Set10>>

\* the claim's example has been sorted
C8_ExampleSorted ==
    /\ labels = <<l_Set10, l_Set2, l_Set1>>
    /\ all_sets = <<l_Set1, l_Set2, l_Set10>>

-----------------------------------------------------------------------------
(* The text search of the Inventory view (lines 138-164) and of the        *)
(* Delivery view (lines 278-290).                                          *)

\* the columns a view searches, in the order of lines 161 and 287
SearchColumns(v) ==
    IF v = "Inventory Overview" THEN <<"mfg_no", "name", "brand">>
    ELSE <<"name", "mfg_no", "status">>

\* the column the view's multiselect filters on before the search
\* (lines 145 and 282)
FilterColumn(v) == IF v = "Inventory Overview" THEN "status" ELSE "set"

\* re.compile(pat) raises re.error: of the characters modelled, "(" opens a
\* group that nothing closes
RegexRaises(pat) == \E i \in DOMAIN pat : pat[i] = "("

\* one pattern character against one text character under re.IGNORECASE:
\* "." matches any character, any other character matches itself in either
\* case
RegexCharMatches(p, c) == p = "." \/ LowerChar(p) = LowerChar(c)

\* re.search(pat, s, re.IGNORECASE) for a pattern of plain characters and "."
RegexSearch(pat, s) ==
    \E i \in 0..(Len(s) - Len(pat)) :
        \A k \in DOMAIN pat : RegexCharMatches(pat[k], s[i + k])

\* Series.str.contains(pat, case=False): regex is True by default
StrContains(pat, s) == RegexSearch(pat, s)

\* lines 161 and 287: the search columns the frame has
SearchTargets(v, cols) ==
    SelectSeq(SearchColumns(v), LAMBDA c : c \in cols)

\* lines 162 and 288: .apply(...).any(axis=1) on one row
RowMask(v, cols, pat, row) ==
    \E i \in DOMAIN SearchTargets(v, cols) :
        StrContains(pat, row[SearchTargets(v, cols)[i]])

\* lines 145 and 282: the rows whose filter column is in the selection; an
\* empty selection keeps every row
FilterRows(v, rows, sel) ==
    IF sel = {} THEN rows
    ELSE SelectSeq(rows, LAMBDA r : r[FilterColumn(v)] \in sel)

\* lines 162 and 288: DataFrame.apply calls the function on the columns of
\* a frame that has rows and columns; on a frame with no row or no column
\* it returns a copy, and .any(axis=1) is then False on every row
ApplyCalls(v, cols, rows) == rows # <<>> /\ SearchTargets(v, cols) # <<>>

\* lines 159-163 and 285-289: whether the search raises re.error
SearchRaises(v, cols, pat, rows) ==
    pat # <<>> /\ ApplyCalls(v, cols, rows) /\ RegexRaises(pat)

\* lines 159-163 and 285-289: the rows the search keeps; `if search:` skips
\* an empty text
SearchRows(v, cols, pat, rows) ==
    IF pat = <<>> THEN rows
    ELSE SelectSeq(rows, LAMBDA r : RowMask(v, cols, pat, r))

t_Mo == <<"M", "o">>
t_MdotO == <<"M", ".", "O">>
t_M1 == <<"M", "1">>
t_ParenO == <<"(", "O", ")">>
t_B == <<"B">>
t_Available == <<"A", "v", "a", "i", "l", "a", "b", "l", "e">>
t_Backorder == <<"B", "a", "c", "k", "o", "r", "d", "e", "r">>

\* rows of the cleaned components frame
InventoryRows ==
    [mfg_no : {t_M1, t_ParenO}, name : {t_Mo, t_MdotO}, brand : {t_B, t_Mo},
     status : {t_Available, t_Backorder}]

\* rows of the cleaned sets frame
DeliveryRows ==
    [name : {t_Mo, t_MdotO}, mfg_no : {t_M1, t_ParenO},
     status : {t_Available, t_Backorder}, set : {l_Set1, l_Set2}]

QueryChars == {"m", "O", ".", "("}

InitSearch ==
    /\ view \in {"Inventory Overview", "Delivery Tracking"}
    /\ frame \in SeqsUpTo(IF view = "Inventory Overview"
                          THEN InventoryRows ELSE DeliveryRows, MaxSearchRows)
    /\ present \in {{"mfg_no", "name", "brand", "status", "set"}, {"name", "status", "set"}}
    /\ selected \in {{}, IF view = "Inventory Overview" THEN {t_Available} ELSE {l_Set1}}
    /\ search \in StringsUpTo(QueryChars, MaxQueryLen)
    /\ df_filtered = frame
    /\ step = "filter"

\* lines 138-151 and 278-283: the copy of the frame, filtered
ApplyFilters ==
    /\ step = "filter"
    /\ df_filtered' = FilterRows(view, df_filtered, selected)
    /\ step' = "search"
    /\ UNCHANGED <<view, frame, present, selected, search>>
    /\ UNCHANGED notSearch

\* lines 158-164 and 285-290
ApplySearch ==
    /\ step = "search"
    /\ IF SearchRaises(view, present, search, df_filtered)
       THEN step' = "re.error" /\ UNCHANGED df_filtered
       ELSE /\ step' = "shown"
            /\ df_filtered' = SearchRows(view, present, search, df_filtered)
    /\ UNCHANGED <<view, frame, present, selected, search>>
    /\ UNCHANGED notSearch

NextSearch == ApplyFilters \/ ApplySearch

\* the row has the query as a literal substring, ignoring case, in one of
\* the view's search columns
RowHasQuery(r) ==
    \E i \in DOMAIN SearchColumns(view) :
        /\ SearchColumns(view)[i] \in present
        /\ Contains(Lower(r[SearchColumns(view)[i]]), Lower(search))

\* C7: for every non-empty search text the search keeps exactly the filtered
\* rows in which a search column contains the text as a literal substring,
\* ignoring case.
C7_SearchAsClaimed ==
    [][(step = "search" /\ search # <<>>) =>
           /\ step' = "shown"
           /\ df_filtered' = SelectSeq(df_filtered, RowHasQuery)]_vars

\* a text found in the name of one row only has kept that row alone
C7_OneRowFound ==
    /\ search = <<"m", "O">>
    /\ Len(FilterRows(view, frame, selected)) = 2
    /\ step = "shown"
    /\ Len(df_filtered) = 1
    /\ df_filtered[1].name = t_Mo

-----------------------------------------------------------------------------
(* The bill of materials of the Project Explorer (lines 371-400).          *)

\* IEEE 754 binary64 arithmetic, as far as line 396 needs it.  A positive
\* float is [m, e]: m holds the 53 binary digits of the significand, most
\* significant first with m[1] = 1, and e is the exponent of m[1]; zero is
\* FloatZero.  Long numbers are handled in limbs of 18 binary digits.
FloatZero == [m |-> <<>>, e |-> 0]

\* the integer a short sequence of binary digits stands for, by halves
RECURSIVE BitsValue(_)
BitsValue(x) ==
    IF x = <<>> THEN 0
    ELSE IF Len(x) = 1 THEN x[1]
    ELSE LET h == Len(x) \div 2
         IN  BitsValue(SubSeq(x, 1, h)) * (2 ^ (Len(x) - h))
                 + BitsValue(SubSeq(x, h + 1, Len(x)))

\* the binary digits of a natural number below 2^30, none for 0
BitsOf(n) ==
    LET wide == [i \in 1..30 |-> (n \div (2 ^ (30 - i))) % 2]
    IN  IF n = 0 THEN <<>>
        ELSE SubSeq(wide, CHOOSE j \in 1..30 :
                              wide[j] = 1 /\ \A i \in 1..(j - 1) : wide[i] = 0, 30)

\* the 18 binary digits of a limb
LimbBits(n) == [i \in 1..18 |-> (n \div (2 ^ (18 - i))) % 2]

\* the digits of x + 1
Increment(x) ==
    IF \A i \in DOMAIN x : x[i] = 1 THEN <<1>> \o [i \in DOMAIN x |-> 0]
    ELSE LET j == CHOOSE j \in DOMAIN x :
                      x[j] = 0 /\ \A i \in (j + 1)..Len(x) : x[i] = 1
         IN  [i \in DOMAIN x |-> IF i < j THEN x[i] ELSE IF i = j THEN 1 ELSE 0]

\* the digits of x * k for 53 digits x and a small factor k
MulSmall(x, k) ==
    LET lo == BitsValue(SubSeq(x, 36, 53)) * k
        mid == BitsValue(SubSeq(x, 18, 35)) * k + lo \div (2 ^ 18)
        hi == BitsValue(SubSeq(x, 1, 17)) * k + mid \div (2 ^ 18)
    IN  BitsOf(hi) \o LimbBits(mid % (2 ^ 18)) \o LimbBits(lo % (2 ^ 18))

\* round to nearest, ties to even: x holds more than 53 digits with
\* x[1] = 1 at exponent e, sticky says that digits beyond x were not all 0
RoundNearestEven(x, e, sticky) ==
    LET kept == SubSeq(x, 1, 53)
        rest == SubSeq(x, 54, Len(x))
        more == sticky \/ \E i \in 2..Len(rest) : rest[i] = 1
        up == rest[1] = 1 /\ (more \/ kept[53] = 1)
        sum == IF up THEN Increment(kept) ELSE kept
    IN  IF Len(sum) = 54 THEN [m |-> SubSeq(sum, 1, 53), e |-> e + 1]
        ELSE [m |-> sum, e |-> e]

\* how often a is doubled to reach b
RECURSIVE Doublings(_, _)
Doublings(a, b) == IF a >= b THEN 0 ELSE 1 + Doublings(2 * a, b)

\* a / b of line 396 for 0 <= a <= b, b > 0: the leading digit and three
\* limbs of the quotient by long division, then rounded
FloatDiv(a, b) ==
    IF a = 0 THEN FloatZero
    ELSE LET k == Doublings(a, b)
             r0 == a * (2 ^ k) - b
             q1 == (r0 * (2 ^ 18)) \div b
             r1 == (r0 * (2 ^ 18)) % b
             q2 == (r1 * (2 ^ 18)) \div b
             r2 == (r1 * (2 ^ 18)) % b
             q3 == (r2 * (2 ^ 18)) \div b
             r3 == (r2 * (2 ^ 18)) % b
         IN  RoundNearestEven(<<1>> \o LimbBits(q1) \o LimbBits(q2) \o LimbBits(q3),
                              0 - k, r3 # 0)

\* f * 100 of line 396
FloatTimes100(f) ==
    IF f = FloatZero THEN FloatZero
    ELSE LET p == MulSmall(f.m, 100)
         IN  RoundNearestEven(p, f.e + (Len(p) - 53), FALSE)

\* int(f) of line 396: the digits before the binary point
FloatToInt(f) ==
    IF f = FloatZero \/ f.e < 0 THEN 0 ELSE BitsValue(SubSeq(f.m, 1, f.e + 1))

\* line 396: int((in_stock/total_parts)*100) if total_parts > 0 else 0
Readiness(in_stock, total_parts) ==
    IF total_parts > 0
    THEN FloatToInt(FloatTimes100(FloatDiv(in_stock, total_parts)))
    ELSE 0

p_A1 == <<"A", "1">>
p_A2 == <<"A", "2">>
p_Zz == <<"Z", "z">>
p_A == <<"A">>
s_MfgNo == <<"M", "f", "g", "N", "o">>
s_Status == <<"S", "t", "a", "t", "u", "s">>
t_Unavailable == <<"U", "n", "a", "v", "a", "i", "l", "a", "b", "l", "e">>

\* line 377: melt(...).dropna() keeps the component cells that are not NaN
Melt(cells) == SelectSeq(cells, LAMBDA c : c.kind # "nan")

\* line 378: bom["MfgNo"].astype(str).str.len() > 1
LongerThanOne(c) == Len(AsStr(c)) > 1

\* line 379: bom["MfgNo"] != "Unknown"
NotUnknown(c) == c # StrCell(s_Unknown)

\* lines 377-379: the part numbers of the bill of materials
BomOf(cells) == SelectSeq(SelectSeq(Melt(cells), LongerThanOne), NotUnknown)

\* the rows of the component table with this part number
Matches(key, inv) == SelectSeq(inv, LAMBDA r : StrCell(r.mfg_no) = key)

\* one row of the join: the bom row beside a component row
Joined(key, r, has_status) ==
    [MfgNo |-> key, status |-> IF has_status THEN StrCell(r.status) ELSE NaNCell]

\* line 387: pd.merge(how="left"): each bom row beside every component row
\* with its part number, or once beside NaN when there is none
RECURSIVE Merge(_, _, _)
Merge(rows, inv, has_status) ==
    IF rows = <<>> THEN <<>>
    ELSE LET ms == Matches(rows[1], inv)
         IN  (IF ms = <<>> THEN <<[MfgNo |-> rows[1], status |-> NaNCell]>>
              ELSE [i \in 1..Len(ms) |-> Joined(rows[1], ms[i], has_status)])
             \o Merge(Tail(rows), inv, has_status)

\* line 394: str.contains("Available", case=False, na=False) on one row
IsAvailable(r) == r.status.kind = "str" /\ StrContains(t_Available, r.status.text)

\* lines 390-400
Metrics(rows, status_col) ==
    LET total_parts == Len(rows)
        in_stock == Len(SelectSeq(rows, IsAvailable))
    IN  IF status_col # None
        THEN [total_parts |-> total_parts, in_stock |-> in_stock,
              missing |-> total_parts - in_stock,
              readiness |-> Readiness(in_stock, total_parts)]
        ELSE [total_parts |-> total_parts, in_stock |-> 0,
              missing |-> total_parts, readiness |-> 0]

NoMetrics == [total_parts |-> 0, in_stock |-> 0, missing |-> 0, readiness |-> 0]

\* the cells of the component columns of a project's row: part numbers in
\* stock and not, the cleaner's "Unknown", a one-character text, NaN
ComponentCells ==
    {StrCell(p_A1), StrCell(p_A2), StrCell(p_Zz), StrCell(s_Unknown),
     StrCell(p_A), NaNCell}

ComponentRows ==
    [mfg_no : {p_A1, p_A2}, status : {t_Available, t_Backorder, t_Unavailable}]

ComponentRowsNoStatus == [mfg_no : {p_A1, p_A2}]

\* n rows, all equal to r
Copies(r, n) == [i \in 1..n |-> r]

\* component tables that list one part number on many rows
BulkTables ==
    {Copies([mfg_no |-> p_A1, status |-> t_Available], n1)
        \o Copies([mfg_no |-> p_A2, status |-> t_Backorder], n2) :
            n1 \in 0..MaxCopies, n2 \in 0..MaxCopies}

InitBom ==
    /\ \/ /\ proj_row \in SeqsUpTo(ComponentCells, MaxRefs)
          /\ \/ /\ c_mfg_no = s_MfgNo /\ c_status = s_Status
                /\ inventory \in SeqsUpTo(ComponentRows, MaxInvRows)
             \/ /\ c_mfg_no = s_MfgNo /\ c_status = None
                /\ inventory \in SeqsUpTo(ComponentRowsNoStatus, MaxInvRows)
             \/ /\ c_mfg_no = None /\ c_status = None
                /\ inventory = <<>>
       \/ /\ proj_row = <<StrCell(p_A1), StrCell(p_A2)>>
          /\ c_mfg_no = s_MfgNo /\ c_status = s_Status
          /\ inventory \in BulkTables
    /\ bom = <<>>
    /\ df_bom = <<>>
    /\ metrics = NoMetrics
    /\ bom_step = "extract"

\* lines 374-379
ExtractBom ==
    /\ bom_step = "extract"
    /\ bom' = BomOf(proj_row)
    /\ bom_step' = "join"
    /\ UNCHANGED <<proj_row, inventory, c_mfg_no, c_status, df_bom, metrics>>
    /\ UNCHANGED notBom

\* lines 383-387, with the else branch of line 440
JoinInventory ==
    /\ bom_step = "join"
    /\ IF c_mfg_no # None
       THEN /\ df_bom' = Merge(bom, inventory, c_status # None)
            /\ bom_step' = "metrics"
       ELSE /\ bom_step' = "error"
            /\ UNCHANGED df_bom
    /\ UNCHANGED <<proj_row, inventory, c_mfg_no, c_status, bom, metrics>>
    /\ UNCHANGED notBom

\* lines 390-406
ComputeMetrics ==
    /\ bom_step = "metrics"
    /\ metrics' = Metrics(df_bom, c_status)
    /\ bom_step' = "shown"
    /\ UNCHANGED <<proj_row, inventory, c_mfg_no, c_status, bom, df_bom>>
    /\ UNCHANGED notBom

NextBom == ExtractBom \/ JoinInventory \/ ComputeMetrics

\* a referenced part number that is no placeholder
IsReference(c) == c.kind = "str" /\ Len(c.text) > 1 /\ c.text # s_Unknown

\* the rows a reference contributes to the left join
RowsOf(c) ==
    IF Matches(c, inventory) = <<>> THEN 1 ELSE Len(Matches(c, inventory))

\* the rows of a reference whose status contains "available", ignoring case
AvailableRowsOf(c) ==
    IF c_status = None THEN 0
    ELSE Len(SelectSeq(Matches(c, inventory),
                       LAMBDA r : Contains(Lower(r.status), Lower(t_Available))))

RECURSIVE TotalRows(_)
TotalRows(cells) ==
    IF cells = <<>> THEN 0 ELSE RowsOf(cells[1]) + TotalRows(Tail(cells))

RECURSIVE AvailableRows(_)
AvailableRows(cells) ==
    IF cells = <<>> THEN 0
    ELSE AvailableRowsOf(cells[1]) + AvailableRows(Tail(cells))

ClaimedTotal == TotalRows(SelectSeq(proj_row, IsReference))
ClaimedInStock == AvailableRows(SelectSeq(proj_row, IsReference))

\* C6: the metrics shown for a project are total_parts = the rows of the
\* left join of its references with the component table, in_stock = the
\* joined rows whose status contains "Available" ignoring case, missing =
\* total_parts - in_stock, and readiness = floor(100 * in_stock /
\* total_parts), or 0 when total_parts is 0.
C6_ReadinessAsClaimed ==
    bom_step = "shown" =>
        /\ metrics.total_parts = ClaimedTotal
        /\ metrics.in_stock = ClaimedInStock
        /\ metrics.missing = ClaimedTotal - ClaimedInStock
        /\ metrics.readiness =
              IF ClaimedTotal = 0 THEN 0
              ELSE (100 * ClaimedInStock) \div ClaimedTotal

\* references [A1, A2, Zz] with A1 Available and A2 Backorder have shown
\* total 3, in stock 1, readiness 33
C6_Example ==
    /\ proj_row = <<StrCell(p_A1), StrCell(p_A2), StrCell(p_Zz)>>
    /\ inventory = <<[mfg_no |-> p_A1, status |-> t_Available],
                     [mfg_no |-> p_A2, status |-> t_Backorder]>>
    /\ bom_step = "shown"
    /\ metrics = [total_parts |-> 3, in_stock |-> 1, missing |-> 2,
                  readiness |-> 33]

-----------------------------------------------------------------------------
(* Specifications.  Each takes one part of the model through its steps and  *)
(* holds the variables of the other parts at their idle values.            *)

CleanIdle == raw = <<>> /\ df = <<>> /\ once = <<>> /\ passes = 0
ResolverIdle == table = <<>> /\ candidates = <<>> /\ result = Pending
SheetsIdle ==
    /\ sheet_names = <<>>
    /\ comp_sheet = None /\ set_sheet = None /\ proj_sheet = None
    /\ selection = "pending"

AppIdle ==
    /\ file = AbsentFile /\ cache = NotCached /\ loads = 0 /\ seen = {}
    /\ attempt = NoAttempt /\ page = "Inventory Overview" /\ clicked = FALSE
    /\ pc = "idle" /\ tables = NoTables /\ screen = <<>>

SortIdle == labels = <<>> /\ keys = <<>> /\ all_sets = Pending

SearchIdle ==
    /\ view = "Inventory Overview" /\ frame = <<>> /\ present = {}
    /\ selected = {} /\ search = <<>> /\ df_filtered = <<>> /\ step = "filter"

BomIdle ==
    /\ proj_row = <<>> /\ inventory = <<>> /\ c_mfg_no = None /\ c_status = None
    /\ bom = <<>> /\ df_bom = <<>> /\ metrics = NoMetrics /\ bom_step = "extract"

\* every part of the model but `part` is idle
IdleExcept(part) ==
    /\ part = "clean" \/ CleanIdle
    /\ part = "resolver" \/ ResolverIdle
    /\ part = "sheets" \/ SheetsIdle
    /\ part = "app" \/ AppIdle
    /\ part = "sort" \/ SortIdle
    /\ part = "search" \/ SearchIdle
    /\ part = "bom" \/ BomIdle

StartClean == InitClean /\ IdleExcept("clean")
SpecClean == StartClean /\ [][NextClean]_vars
StartResolver == InitResolver /\ IdleExcept("resolver")
SpecResolver == StartResolver /\ [][NextResolver]_vars
StartSheets == InitSheets /\ IdleExcept("sheets")
SpecSheets == StartSheets /\ [][NextSheets]_vars
StartApp == InitApp /\ IdleExcept("app")
SpecApp == StartApp /\ [][NextApp]_vars
StartSort == InitSort /\ IdleExcept("sort")
SpecSort == StartSort /\ [][NextSort]_vars
StartSearch == InitSearch /\ IdleExcept("search")
SpecSearch == StartSearch /\ [][NextSearch]_vars
StartBom == InitBom /\ IdleExcept("bom")
SpecBom == StartBom /\ [][NextBom]_vars

=============================================================================
